---- MODULE Spec2Model ----
(***************************************************************************)
(* Document review workflow backend (app/main.py, app/database.py,         *)
(* app/clauses.py, app/models.py).                                         *)
(*                                                                         *)
(* The state is the content of the three MongoDB collections (users,       *)
(* documents, clauses), the requests that have read a document and not yet *)
(* written it, and the response of the last handler step.  A handler that  *)
(* writes a document is two database operations: find_one                  *)
(* (get_document_by_id) and, later, update_one (update_document).  The     *)
(* database is a server shared by every worker process of the application, *)
(* so other requests' operations can fall between the two.  Each handler   *)
(* is an operator giving its outcome (status code and update_data) from    *)
(* the document it reads.                                                  *)
(*                                                                         *)
(*   Spec         requests on document d1 interleave: the read part of a   *)
(*                handler (Begin) and its update_one (Write) are two steps *)
(*   SpecSerial   one worker: each handler runs to completion in one step  *)
(*                (the handlers are coroutines that never await), with     *)
(*                every request body of Bodies, and the clock advancing    *)
(*   SpecSweep    the sweep among serial requests on both documents        *)
(*   SpecUsers    the user handlers                                        *)
(*   SpecClauses  the clause handlers                                      *)
(*                                                                         *)
(* Requests in flight are a set: two requests of the same caller with the  *)
(* same update_data are one element of it.                                 *)
(***************************************************************************)
EXTENDS Integers, Sequences, FiniteSets, TLC

VARIABLES users, docs, clauses, nextClause, now, pending, resp

vars == <<users, docs, clauses, nextClause, now, pending, resp>>

(* ------------------------------ bounds --------------------------------- *)
MaxUsers == 5
MaxPending == 2
MaxTime == 3
MaxClauses == 3

(* --------------------------- models.py --------------------------------- *)
REVIEWER == "reviewer"
APPROVER == "approver"
UserRole == {REVIEWER, APPROVER}

STATUS_NEW == "new"
PENDING == "pending"
IN_PROGRESS == "in_progress"
CHANGES_MADE == "changes_made"
APPROVED == "approved"
DocumentStatus == {STATUS_NEW, PENDING, IN_PROGRESS, CHANGES_MADE, APPROVED}

\* Python's None for string-valued fields, and for user ids.
None == "None"
NoUser == 0

\* timedelta(days=1), in the model's unit of time (one day)
OneDay == 1

(* ------------------------- request inputs ------------------------------ *)
DocIds == {"d1", "d2"}
\* a document id that is in no collection
MissingDoc == "dx"
\* emails a POST /users/ body may carry: one already in use at Init, one fresh
NewEmails == {"e1", "e4"}
\* a user id no user has (uuid4 never produces it)
GhostUser == MaxUsers + 4

\* approver_ids bodies of POST /documents/{id}/approvers
ApproverIdLists ==
    { <<>>, <<3>>, <<3, 2>>, <<2, 3>>, <<GhostUser, 3>>, <<3, GhostUser>> }

\* DocumentUpdate bodies of PUT /documents/{id}: the fields that are set
\* (update.dict(exclude_unset=True)); every other field of the model is None.
Bodies ==
    { [status |-> CHANGES_MADE, changes_summary |-> "s1", notes |-> "n1"],
      [status |-> APPROVED, notes |-> "n1"],
      [status |-> APPROVED, content |-> "c1"],
      [notes |-> "n1"],
      [content |-> "c1"],
      [approvers |-> <<2, GhostUser>>] }

\* the bodies of the interleaved requests of Spec
RaceBodies ==
    { [status |-> CHANGES_MADE, changes_summary |-> "s1", notes |-> "n1"],
      [status |-> APPROVED, notes |-> "n1"],
      [notes |-> "n1"] }

\* the bodies of the requests of SpecSweep
SweepBodies == { [status |-> APPROVED, notes |-> "n1"] }

\* update.<field>: the field's value, None when the body does not set it
Field(update, f) == IF f \in DOMAIN update THEN update[f] ELSE None

(* --------------------------- database.py ------------------------------- *)
\* uuid4 ids are modelled by the position in the collection (insertion order)
UserIds == 1..Len(users)

get_user_by_id(user_id) ==
    IF user_id \in UserIds THEN user_id ELSE NoUser

\* find_one({"email": email}): the first match in natural (insertion) order
get_user_by_email(email) ==
    IF \E i \in UserIds : users[i].email = email
    THEN CHOOSE i \in UserIds :
            /\ users[i].email = email
            /\ \A j \in UserIds : users[j].email = email => i <= j
    ELSE NoUser

create_user(user_data) == Append(users, user_data)

get_document_by_id(doc_id) == doc_id \in DOMAIN docs

\* $set: the named fields are replaced, the others kept
Set(doc, data) ==
    [f \in DOMAIN doc |-> IF f \in DOMAIN data THEN data[f] ELSE doc[f]]

\* an update_one that refuses a document already modified at this time
update_document_FirstWriteWins(doc_id, update_data) ==
    IF doc_id \in DOMAIN docs /\ docs[doc_id].last_modified < now
    THEN [docs EXCEPT ![doc_id] =
             Set(@, update_data @@ [last_modified |-> now])]
    ELSE docs

update_document(doc_id, update_data) ==
    IF doc_id \in DOMAIN docs
    THEN [docs EXCEPT ![doc_id] =
             Set(@, update_data @@ [last_modified |-> now])]
    ELSE docs

\* a sweep filter without the created_at condition
SweepMatches_AnyNew(doc) == doc.status = STATUS_NEW

\* database.update_document_status: the new -> pending sweep (update_many)
SweepMatches(doc) == doc.status = STATUS_NEW /\ doc.created_at < now - OneDay

database_update_document_status ==
    [d \in DOMAIN docs |->
        IF SweepMatches(docs[d]) THEN Set(docs[d], [status |-> PENDING])
        ELSE docs[d]]

(* ------------------------------ main.py -------------------------------- *)
Response(op, code, user, doc) ==
    [op |-> op, code |-> code, user |-> user, doc |-> doc]

\* what a handler's read part decides: the status code and, when it goes on
\* to update_document, the update_data
Reject(code) == [code |-> code, write |-> FALSE, data |-> [status |-> None]]
Return == [code |-> 200, write |-> FALSE, data |-> [status |-> None]]
Update(update_data) == [code |-> 200, write |-> TRUE, data |-> update_data]

\* a request that passed its checks and has its update_one still to do
Intent(op, user, doc, data) ==
    [op |-> op, user |-> user, doc |-> doc, data |-> data]

Contains(list, x) == \E k \in 1..Len(list) : list[k] = x

\* a validation loop that checks only that the id exists
InvalidApprover_ExistenceOnly(approver_id) ==
    get_user_by_id(approver_id) = NoUser

\* POST /documents/{document_id}/approvers
InvalidApprover(approver_id) ==
    \/ get_user_by_id(approver_id) = NoUser
    \/ users[approver_id].role # APPROVER

add_approvers(u, document_id, approver_ids) ==
    IF ~get_document_by_id(document_id) THEN Reject(404)
    ELSE IF users[u].role # REVIEWER \/ u # docs[document_id].reviewer_id
         THEN Reject(403)
    ELSE IF \E k \in 1..Len(approver_ids) : InvalidApprover(approver_ids[k])
         THEN Reject(400)
    ELSE Update([approvers |-> approver_ids])

\* a read that sets IN_PROGRESS whatever the stored status is
get_document_AlwaysBump(u, document_id) ==
    IF ~get_document_by_id(document_id) THEN Reject(404)
    ELSE IF /\ u # docs[document_id].reviewer_id
            /\ ~Contains(docs[document_id].approvers, u)
         THEN Reject(403)
    ELSE Update([status |-> IN_PROGRESS])

\* GET /documents/{document_id}
get_document(u, document_id) ==
    IF ~get_document_by_id(document_id) THEN Reject(404)
    ELSE IF /\ u # docs[document_id].reviewer_id
            /\ ~Contains(docs[document_id].approvers, u)
         THEN Reject(403)
    ELSE IF docs[document_id].status \in {STATUS_NEW, PENDING}
         THEN Update([status |-> IN_PROGRESS])
    ELSE Return

\* PUT /documents/{document_id}: the reviewer's branch, lines 173-188
ReviewerUpdate(u, document, update) ==
    IF u # document.reviewer_id THEN Reject(403)
    ELSE IF Field(update, "status") = CHANGES_MADE
         THEN \* approver['email'] of a missing user raises TypeError
              IF \E k \in 1..Len(document.approvers) :
                     get_user_by_id(document.approvers[k]) = NoUser
              THEN Reject(500)
              ELSE Update([status |-> CHANGES_MADE,
                           changes_summary |-> Field(update, "changes_summary"),
                           notes |-> Field(update, "notes")])
    ELSE Update(update)

\* PUT /documents/{document_id}: the approver's branch, lines 190-206
ApproverUpdate(u, document, update) ==
    IF ~Contains(document.approvers, u) THEN Reject(403)
    ELSE IF Field(update, "status") = APPROVED
         THEN Update([status |-> APPROVED, notes |-> Field(update, "notes")])
    ELSE LET back == [status |-> IN_PROGRESS,
                      notes |-> Field(update, "notes"),
                      last_reviewed_by |-> u]
         IN  IF Field(update, "content") # None
             THEN Update(back @@ [content |-> update.content])
             ELSE Update(back)

\* lines 208-210: "Ensure status is always included in update"
WithStatus(outcome, document) ==
    IF outcome.write /\ "status" \notin DOMAIN outcome.data
    THEN Update(outcome.data @@ [status |-> document.status])
    ELSE outcome

update_document_status(u, document_id, update) ==
    IF ~get_document_by_id(document_id) THEN Reject(404)
    ELSE LET document == docs[document_id]
         IN  WithStatus(IF users[u].role = REVIEWER
                        THEN ReviewerUpdate(u, document, update)
                        ELSE ApproverUpdate(u, document, update),
                        document)

\* Depends(get_current_user): the bearer token's user, with _id and role
current_user(u) == u \in UserIds

(* --------------------------- request steps ----------------------------- *)
CanStart == Cardinality(pending) < MaxPending

\* the handler up to its update_document call
Begin(op, u, d, outcome) ==
    /\ current_user(u)
    /\ IF outcome.write
       THEN /\ CanStart
            /\ pending' = pending \cup {Intent(op, u, d, outcome.data)}
            /\ resp' = Response(op, 0, u, d)
       ELSE /\ pending' = pending
            /\ resp' = Response(op, outcome.code, u, d)
    /\ UNCHANGED <<users, docs, clauses, nextClause, now>>

\* the update_one of a request whose read part succeeded, and its response
Write(i) ==
    /\ i \in pending
    /\ docs' = update_document(i.doc, i.data)
    /\ pending' = pending \ {i}
    /\ resp' = Response(i.op, 200, i.user, i.doc)
    /\ UNCHANGED <<users, clauses, nextClause, now>>

\* the whole handler in one step
Handle(op, u, d, outcome) ==
    /\ current_user(u)
    /\ pending = {}
    /\ docs' = IF outcome.write THEN update_document(d, outcome.data) ELSE docs
    /\ resp' = Response(op, outcome.code, u, d)
    /\ UNCHANGED <<users, clauses, nextClause, now, pending>>

\* POST /users/
create_new_user(email, role) ==
    /\ Len(users) < MaxUsers
    /\ users' = create_user([email |-> email, role |-> role])
    /\ resp' = Response("create_user", 200, Len(users) + 1, "-")
    /\ UNCHANGED <<docs, clauses, nextClause, now, pending>>

\* GET /users/email/{email}
get_user_by_email_endpoint(email) ==
    /\ LET user == get_user_by_email(email)
       IN  resp' = Response("user_by_email",
                            IF user = NoUser THEN 404 ELSE 200, user, "-")
    /\ UNCHANGED <<users, docs, clauses, nextClause, now, pending>>

\* GET /users/{user_id}
get_user_by_id_endpoint(user_id) ==
    /\ LET user == get_user_by_id(user_id)
       IN  resp' = Response("user_by_id",
                            IF user = NoUser THEN 404 ELSE 200, user, "-")
    /\ UNCHANGED <<users, docs, clauses, nextClause, now, pending>>

\* an external caller runs the sweep; no handler does
Sweep ==
    /\ docs' = database_update_document_status
    /\ resp' = Response("sweep", 0, NoUser, "-")
    /\ UNCHANGED <<users, clauses, nextClause, now, pending>>

\* datetime.now() advances
Tick ==
    /\ now < MaxTime
    /\ now' = now + 1
    /\ UNCHANGED <<users, docs, clauses, nextClause, pending, resp>>

(* ----------------------------- clauses.py ------------------------------ *)
\* a clause id of the request path: 1.. are well-formed ObjectIds (24 hex
\* digits), MalformedId is a string ObjectId() rejects with InvalidId
MalformedId == 0
ClauseIds == 1..MaxClauses
ClauseBodies ==
    { [title |-> "t1", description |-> "x", domain |-> "dm1"],
      [title |-> "t2", description |-> "x", domain |-> "dm2"] }

ClauseResponse(op, code, clause_id) ==
    [op |-> op, code |-> code, clause |-> clause_id]

\* `except Exception as e: raise HTTPException(status_code=500, ...)`:
\* HTTPException derives from Exception, so the handler's own 404 is caught too
Caught(raised) == raised \in {"InvalidId", "HTTPException(404)", "HTTPException(500)"}

\* what the try block of update_clause / delete_clause raises
LookupRaises(clause_id) ==
    IF clause_id = MalformedId THEN "InvalidId"
    ELSE IF clause_id \notin DOMAIN clauses THEN "HTTPException(404)"
    ELSE "nothing"

TryCode(raised, code) ==
    IF raised = "nothing" THEN 200
    ELSE IF Caught(raised) THEN 500
    ELSE code

\* POST /api/clauses
create_clause(clause) ==
    /\ nextClause <= MaxClauses
    /\ clauses' = clauses @@
          (nextClause :> (clause @@ [created_at |-> now, last_modified |-> now]))
    /\ nextClause' = nextClause + 1
    /\ resp' = ClauseResponse("create_clause", 200, nextClause)
    /\ UNCHANGED <<users, docs, now, pending>>

\* PUT /api/clauses/{clause_id}
update_clause(clause_id, clause) ==
    /\ LET raised == LookupRaises(clause_id)
       IN  /\ clauses' = IF raised = "nothing"
                         THEN [clauses EXCEPT ![clause_id] =
                                  Set(@, clause @@ [last_modified |-> now])]
                         ELSE clauses
           /\ resp' = ClauseResponse("update_clause", TryCode(raised, 404), clause_id)
    /\ UNCHANGED <<users, docs, nextClause, now, pending>>

\* DELETE /api/clauses/{clause_id}
delete_clause(clause_id) ==
    /\ LET raised == LookupRaises(clause_id)
       IN  /\ clauses' = IF raised = "nothing"
                         THEN [c \in DOMAIN clauses \ {clause_id} |-> clauses[c]]
                         ELSE clauses
           /\ resp' = ClauseResponse("delete_clause", TryCode(raised, 404), clause_id)
    /\ UNCHANGED <<users, docs, nextClause, now, pending>>

(* ------------------------------- Init ---------------------------------- *)
\* Document(...) defaults of models.py; documents are inserted by a process
\* outside these handlers, each with its assigned reviewer.
Document(reviewer_id, created_at) ==
    [ reviewer_id |-> reviewer_id, approvers |-> <<>>, status |-> STATUS_NEW,
      created_at |-> created_at, last_modified |-> created_at,
      content |-> "c0", notes |-> None, last_reviewed_by |-> NoUser,
      changes_summary |-> None ]

Init ==
    /\ users = << [email |-> "e1", role |-> REVIEWER],
                  [email |-> "e2", role |-> REVIEWER],
                  [email |-> "e3", role |-> APPROVER] >>
    /\ docs = [d \in DocIds |-> IF d = "d1" THEN Document(1, 0)
                                ELSE Document(2, 1)]
    /\ clauses = << >>
    /\ nextClause = 1
    \* d1 was created two days ago, d2 exactly one day ago
    /\ now = 2
    /\ pending = {}
    /\ resp = Response("none", 0, NoUser, "-")

(* ----------------- Spec: requests interleave on document d1 ------------ *)
AddApprovers ==
    \E u \in UserIds, ids \in ApproverIdLists :
        Begin("add_approvers", u, "d1", add_approvers(u, "d1", ids))
GetDocument ==
    \E u \in UserIds : Begin("get_document", u, "d1", get_document(u, "d1"))
UpdateDocumentStatus ==
    \E u \in UserIds, update \in RaceBodies :
        Begin("update_document_status", u, "d1",
              update_document_status(u, "d1", update))
WriteDocument == \E i \in pending : Write(i)

Next ==
    \/ AddApprovers
    \/ GetDocument
    \/ UpdateDocumentStatus
    \/ WriteDocument
    \/ Sweep

Spec == Init /\ [][Next]_vars

(* ------- SpecSerial: one worker, each handler runs to completion ------- *)
SerialAddApprovers ==
    \E u \in UserIds, d \in {"d1", MissingDoc}, ids \in ApproverIdLists :
        Handle("add_approvers", u, d, add_approvers(u, d, ids))
SerialGetDocument ==
    \E u \in UserIds, d \in {"d1", MissingDoc} :
        Handle("get_document", u, d, get_document(u, d))
SerialUpdateDocumentStatus ==
    \E u \in UserIds, d \in {"d1", MissingDoc}, update \in Bodies :
        Handle("update_document_status", u, d,
               update_document_status(u, d, update))

NextSerial ==
    \/ SerialAddApprovers
    \/ SerialGetDocument
    \/ SerialUpdateDocumentStatus
    \/ Sweep
    \/ Tick

SpecSerial == Init /\ [][NextSerial]_vars

(* ------ SpecSweep: the sweep among serial requests on both documents --- *)
SweepAddApprovers ==
    \E u \in UserIds, d \in DocIds :
        Handle("add_approvers", u, d, add_approvers(u, d, <<3>>))
SweepGetDocument ==
    \E u \in UserIds, d \in DocIds :
        Handle("get_document", u, d, get_document(u, d))
SweepUpdateDocumentStatus ==
    \E u \in UserIds, d \in DocIds, update \in SweepBodies :
        Handle("update_document_status", u, d,
               update_document_status(u, d, update))

NextSweep ==
    \/ SweepAddApprovers
    \/ SweepGetDocument
    \/ SweepUpdateDocumentStatus
    \/ Sweep
    \/ Tick

SpecSweep == Init /\ [][NextSweep]_vars

(* ------------------------ SpecUsers: the users ------------------------- *)
CreateUser == \E e \in NewEmails, r \in UserRole : create_new_user(e, r)
GetUserByEmail ==
    \E e \in NewEmails \cup {"e2", "e9"} : get_user_by_email_endpoint(e)

GetUserById == \E id \in 1..MaxUsers \cup {GhostUser} : get_user_by_id_endpoint(id)

NextUsers ==
    \/ CreateUser
    \/ GetUserByEmail
    \/ GetUserById

SpecUsers == Init /\ [][NextUsers]_vars

(* ----------------------- SpecClauses: the clauses ---------------------- *)
CreateClause == \E c \in ClauseBodies : create_clause(c)
UpdateClause ==
    \E id \in ClauseIds \cup {MalformedId}, c \in ClauseBodies : update_clause(id, c)
DeleteClause == \E id \in ClauseIds \cup {MalformedId} : delete_clause(id)

NextClauses ==
    \/ CreateClause
    \/ UpdateClause
    \/ DeleteClause

SpecClauses == Init /\ [][NextClauses]_vars

(* ============================== claims ================================= *)
Authorized(u, document) ==
    u = document.reviewer_id \/ Contains(document.approvers, u)

\* the caller the claim C1 allows to write with operation op
MayWrite(op, u, document) ==
    CASE op = "get_document" -> Authorized(u, document)
      [] op = "update_document_status" ->
            IF users[u].role = REVIEWER THEN u = document.reviewer_id
            ELSE Contains(document.approvers, u)
      [] op = "add_approvers" ->
            users[u].role = REVIEWER /\ u = document.reviewer_id

\* the step is the update_one of request i
Applied(i) == i \in pending /\ i \notin pending'

\* the step is the read part of a request on a document (not its update_one)
ReadStep(op) ==
    /\ resp'.op = op
    /\ pending \subseteq pending'
    /\ docs' = docs
    /\ resp'.code # 200 \/ pending' = pending

\* C1 (as claimed): a write to a document is applied only for a caller who is,
\* when it is applied, the document's reviewer_id or one of its approvers as
\* the operation requires, also when the approvers were replaced between the
\* handler's check and its write; a 403 leaves the documents unchanged.
C1_WriteOnlyIfAuthorized ==
    [][ /\ \A i \in pending : Applied(i) => MayWrite(i.op, i.user, docs[i.doc])
        /\ (resp'.code = 403 /\ resp' # resp) => docs' = docs ]_vars

\* C2 (as claimed): a reviewer-role user who is not the document's reviewer_id
\* gets 403 from GET and PUT on it, also when the user is in its approvers.
C2_OtherReviewerForbidden ==
    ( /\ resp.op \in {"get_document", "update_document_status"}
      /\ resp.doc \in DOMAIN docs
      /\ users[resp.user].role = REVIEWER
      /\ resp.user # docs[resp.doc].reviewer_id )
    => resp.code = 403

\* C3: an authorized GET of a document stored as NEW or PENDING goes on to one
\* write, which sets status to IN_PROGRESS (and last_modified) and nothing
\* else; an authorized GET of a document stored as IN_PROGRESS, CHANGES_MADE
\* or APPROVED returns 200 and writes nothing.
C3_ReadBumpsOnce ==
    [][ /\ \A u \in UserIds :
            ( /\ ReadStep("get_document")
              /\ resp'.user = u
              /\ resp'.doc \in DOMAIN docs
              /\ Authorized(u, docs[resp'.doc]) )
            => IF docs[resp'.doc].status \in {STATUS_NEW, PENDING}
               THEN /\ resp'.code = 0
                    /\ pending' = pending \cup
                          {Intent("get_document", u, resp'.doc,
                                  [status |-> IN_PROGRESS])}
               ELSE resp'.code = 200 /\ pending' = pending
        /\ \A i \in pending :
            (Applied(i) /\ i.op = "get_document")
            => docs' = [docs EXCEPT ![i.doc] =
                          [@ EXCEPT !.status = IN_PROGRESS,
                                    !.last_modified = now]] ]_vars

\* a read that wrote nothing: the document is CHANGES_MADE after a GET's 200
C3_Witness ==
    /\ resp.op = "get_document"
    /\ resp.code = 200
    /\ docs["d1"].status = CHANGES_MADE

\* an id that is no user's, or whose user is not an approver
NotAnApprover(id) == id \notin UserIds \/ users[id].role # APPROVER

\* C4: POST approvers by the assigned reviewer with a list holding an id that
\* does not exist or is not an approver's, at any position, is answered 400
\* and neither writes the document nor goes on to write it.
C4_InvalidApproverRejected ==
    [][ \A ids \in ApproverIdLists :
          ( /\ Begin("add_approvers", docs["d1"].reviewer_id, "d1",
                     add_approvers(docs["d1"].reviewer_id, "d1", ids))
            /\ users[docs["d1"].reviewer_id].role = REVIEWER
            /\ \E k \in 1..Len(ids) : NotAnApprover(ids[k]) )
          => /\ resp'.code = 400
             /\ docs' = docs
             /\ pending' = pending ]_vars

\* a list was rejected with 400 while the document held approvers
C4_Witness ==
    /\ resp.op = "add_approvers"
    /\ resp.code = 400
    /\ docs["d1"].approvers = <<3>>

\* C5 (as claimed): a PUT with status APPROVED by a user who is in the
\* document's approvers leaves the stored status APPROVED whatever it was, and
\* writes nothing but status, notes and last_modified.
C5_ApproveByListedUser ==
    [][ \A u \in UserIds, update \in Bodies :
          ( /\ Handle("update_document_status", u, "d1",
                      update_document_status(u, "d1", update))
            /\ Contains(docs["d1"].approvers, u)
            /\ Field(update, "status") = APPROVED )
          => /\ docs'["d1"].status = APPROVED
             /\ \A f \in DOMAIN docs["d1"] \ {"status", "notes", "last_modified"} :
                    docs'["d1"][f] = docs["d1"][f] ]_vars

\* C6 (as claimed): DELETE of a well-formed clause id that is not in the
\* collection answers 404 and leaves the collection unchanged.
C6_DeleteMissingIsNotFound ==
    [][ ( /\ resp'.op = "delete_clause"
          /\ resp'.clause \in ClauseIds
          /\ resp'.clause \notin DOMAIN clauses )
        => resp'.code = 404 /\ clauses' = clauses ]_vars

\* C7 (as claimed): a fetch by the email of the user created last returns that
\* user's id and role, whatever users were created before.
C7_FetchReturnsCreated ==
    ( /\ resp.op = "user_by_email"
      /\ resp.code = 200
      /\ users[resp.user].email = users[Len(users)].email )
    => /\ resp.user = Len(users)
       /\ users[resp.user].role = users[Len(users)].role

\* C8: a request that passed its checks is never dropped because of another;
\* its update_one is applied whatever was written since it read the document,
\* and sets exactly its update_data and last_modified, so each field holds
\* the value of the write applied last.
C8_LastWriteWins ==
    [][ \A i \in pending :
          \/ i \in pending'
          \/ /\ pending' = pending \ {i}
             /\ resp' = Response(i.op, 200, i.user, i.doc)
             /\ \A f \in DOMAIN i.data : docs'[i.doc][f] = i.data[f]
             /\ docs'[i.doc].last_modified = now
             /\ \A f \in DOMAIN docs[i.doc] \ (DOMAIN i.data \cup {"last_modified"}) :
                    docs'[i.doc][f] = docs[i.doc][f] ]_vars

\* the reviewer's PUT read the document as NEW, the approver's PUT (sent back:
\* IN_PROGRESS, last_reviewed_by) was written, and the reviewer's write came last
C8_Witness ==
    /\ resp = Response("update_document_status", 200, 1, "d1")
    /\ docs["d1"].status = STATUS_NEW
    /\ docs["d1"].last_reviewed_by = 3

\* the step is a run of the sweep (Tick leaves resp as it is)
SweepStep == resp'.op = "sweep" /\ now' = now

\* C9: the sweep sets status to PENDING in exactly the documents stored as NEW
\* and created more than one day before, changing no other field and no other
\* document; a handler's step changes no document but the one it addresses.
C9_SweepFrame ==
    [][ /\ SweepStep =>
            \A d \in DocIds :
                docs'[d] = IF /\ docs[d].status = STATUS_NEW
                              /\ docs[d].created_at + OneDay < now
                           THEN [docs[d] EXCEPT !.status = PENDING]
                           ELSE docs[d]
        /\ ~SweepStep =>
            \A d \in DocIds : d # resp'.doc => docs'[d] = docs[d] ]_vars

\* the sweep ran at time 2: d1 (created at 0) is PENDING with last_modified as
\* it was, d2 (created at 1, exactly one day before) is still NEW
C9_Witness ==
    /\ resp.op = "sweep"
    /\ now = 2
    /\ docs["d1"].status = PENDING
    /\ docs["d1"].last_modified = docs["d1"].created_at
    /\ docs["d2"].status = STATUS_NEW

\* C10 (as claimed): a stored status becomes APPROVED only by the PUT of a
\* user who is not a reviewer and is in the document's approvers.
C10_ApprovedOnlyByApprover ==
    [][ \A d \in DocIds :
          (docs[d].status # APPROVED /\ docs'[d].status = APPROVED)
          => /\ resp'.op = "update_document_status"
             /\ users[resp'.user].role # REVIEWER
             /\ Contains(docs[d].approvers, resp'.user) ]_vars

\* the changes of status the claim C11 lists, as (from, to) pairs
ListedTransitions ==
    { <<STATUS_NEW, PENDING>>, <<STATUS_NEW, IN_PROGRESS>>,
      <<PENDING, IN_PROGRESS>>, <<IN_PROGRESS, CHANGES_MADE>>,
      <<CHANGES_MADE, APPROVED>>, <<IN_PROGRESS, APPROVED>>,
      <<CHANGES_MADE, IN_PROGRESS>> }

\* C11 (as claimed): every change of a document's stored status is one of the
\* listed transitions; no other pair of distinct statuses occurs, and none
\* leaves APPROVED.
C11_OnlyListedTransitions ==
    [][ \A d \in DocIds :
          docs'[d].status # docs[d].status
          => <<docs[d].status, docs'[d].status>> \in ListedTransitions ]_vars

\* request i is a PUT of the assigned reviewer whose update_data only a body
\* that does not set status produces
StatuslessReviewerPut(i) ==
    /\ i.op = "update_document_status"
    /\ users[i.user].role = REVIEWER
    /\ i.user = docs[i.doc].reviewer_id
    /\ \E update \in RaceBodies :
          /\ "status" \notin DOMAIN update
          /\ i.data = update @@ [status |-> i.data.status]
    /\ ~\E update \in RaceBodies :
          /\ "status" \in DOMAIN update
          /\ i.data = ReviewerUpdate(i.user, docs[i.doc], update).data

\* C12 (as claimed): the write of the assigned reviewer's PUT whose body does
\* not set status leaves the stored status as it was just before that write,
\* whatever other requests wrote since the PUT read the document.
C12_StatuslessPutKeepsStatus ==
    [][ \A i \in pending :
          (Applied(i) /\ StatuslessReviewerPut(i))
          => docs'[i.doc].status = docs[i.doc].status ]_vars

\* C13 (as claimed): every id in every document's approvers is the id of an
\* existing user whose role is approver.
C13_ApproversAreApprovers ==
    \A d \in DocIds : \A k \in 1..Len(docs[d].approvers) :
        /\ docs[d].approvers[k] \in UserIds
        /\ users[docs[d].approvers[k]].role = APPROVER

\* C14 (as claimed): the write of a GET is applied only when the status stored
\* at that moment is NEW or PENDING, so it never overwrites IN_PROGRESS,
\* CHANGES_MADE or APPROVED.
C14_ReadNeverOverwrites ==
    [][ \A i \in pending :
          (Applied(i) /\ i.op = "get_document")
          => docs[i.doc].status \in {STATUS_NEW, PENDING} ]_vars

====
